---------------------------- MODULE Spec2Model ----------------------------
(***************************************************************************)
(* Model of the model-selection and response-normalisation pipeline of     *)
(* src/app.py: GeminiModelManager and GeminiFIAnalyzer.                    *)
(*                                                                         *)
(* Text is modelled as Python models it: a sequence of characters, here a  *)
(* tuple of one-character strings.  Every str method the code uses         *)
(* (strip, replace, find, rfind, slicing, lower, the in operator) and      *)
(* json.loads are operators on such tuples, computed as Python computes    *)
(* them.                                                                   *)
(***************************************************************************)
EXTENDS Integers, Sequences, FiniteSets, TLC

VARIABLES
    api_key,              \* GeminiModelManager.api_key
    configure_raised,     \* whether genai.configure raised in _ensure_configured
    configured,           \* GeminiModelManager.configured
    selected_model_name,  \* GeminiModelManager.selected_model_name (None or a name)
    pc,                   \* where the running analyze_with_gemini call stands
    pass,                 \* which pick_working_model call of the running analyze call
    fir_text,             \* argument of the running (or last) analyze call
    models,               \* pick_working_model: what list_models returned
    candidates,           \* pick_working_model: the sorted candidate list
    idx,                  \* pick_working_model: position of the for loop (from 1)
                          \* (the three are locals: empty outside the call)
    probed,               \* candidates whose probe raised in the running
                          \* pick_working_model call, in the order probed
    picked,               \* how the last pick_working_model call of this analyze ended
    model_name,           \* analyze_with_gemini: local model_name
    list_calls,           \* genai.list_models() calls made by the running analyze call
    probe_count,          \* generate_content("Hello") calls per model, same call
    prompts,              \* generate_content(prompt) requests of the same call
    response,             \* response.text of the completion request, or None
    decoded,              \* what json.loads returned (line 233), or PyNone
    result,               \* what the last analyze call returned, or PyNone
    returned_at,          \* source line of the return statement it returned from, or 0
    outcome,              \* "none", "returned", or "raised" (an exception escaped)
    now                   \* the clock datetime.now() reads

vars == <<api_key, configure_raised, configured, selected_model_name, pc, pass,
          fir_text, models, candidates, idx, probed, picked, model_name, list_calls,
          probe_count, prompts, response, decoded, result, returned_at, outcome, now>>

\* The grave accent (U+0060), which a TLA+ string cannot hold.  The tilde stands
\* for it; no text of the model holds a tilde of its own.
BT == "~"

\* Python's None.  It is a one-element tuple so that it can be compared with text.
None == <<"None">>

-----------------------------------------------------------------------------
(* Python str operations *)

Range(f) == {f[i] : i \in DOMAIN f}

Max(a, b) == IF a >= b THEN a ELSE b
Min(a, b) == IF a <= b THEN a ELSE b

\* s[a:b] for 0 <= a, 0 <= b (Python clamps both to len(s); empty when a >= b)
Slice(s, a, b) ==
    LET hi == Min(b, Len(s))
    IN  IF a >= hi THEN <<>> ELSE SubSeq(s, a + 1, hi)

\* s.startswith(pat, i) for a 0-based offset i
StartsAt(s, pat, i) ==
    /\ i + Len(pat) <= Len(s)
    /\ \A k \in 1..Len(pat) : s[i + k] = pat[k]

\* s.find(pat): the lowest 0-based index where pat occurs, or -1
Find(s, pat) ==
    LET hits == {i \in 0..(Len(s) - Len(pat)) : StartsAt(s, pat, i)}
    IN  IF hits = {} THEN -1 ELSE CHOOSE i \in hits : \A j \in hits : i <= j

\* s.rfind(pat): the highest 0-based index where pat occurs, or -1
RFind(s, pat) ==
    LET hits == {i \in 0..(Len(s) - Len(pat)) : StartsAt(s, pat, i)}
    IN  IF hits = {} THEN -1 ELSE CHOOSE i \in hits : \A j \in hits : i >= j

\* pat in s
Contains(s, pat) == Find(s, pat) # -1

\* s.replace(pat, ''): occurrences are removed left to right, without overlap
RECURSIVE Remove(_, _)
Remove(s, pat) ==
    IF s = <<>> THEN <<>>
    ELSE IF StartsAt(s, pat, 0) THEN Remove(Slice(s, Len(pat), Len(s)), pat)
    ELSE <<Head(s)>> \o Remove(Tail(s), pat)

Whitespace == {" ", "\n", "\t", "\r"}

RECURSIVE LStrip(_)
LStrip(s) == IF s # <<>> /\ Head(s) \in Whitespace THEN LStrip(Tail(s)) ELSE s

RECURSIVE RStrip(_)
RStrip(s) ==
    IF s # <<>> /\ s[Len(s)] \in Whitespace THEN RStrip(SubSeq(s, 1, Len(s) - 1)) ELSE s

\* s.strip()
Strip(s) == RStrip(LStrip(s))

UpperCase == <<"A","B","C","D","E","F","G","H","I","J","K","L","M",
               "N","O","P","Q","R","S","T","U","V","W","X","Y","Z">>
LowerCase == <<"a","b","c","d","e","f","g","h","i","j","k","l","m",
               "n","o","p","q","r","s","t","u","v","w","x","y","z">>
Digits == <<"0","1","2","3","4","5","6","7","8","9">>

IsUpper(c) == c \in Range(UpperCase)
IsDigit(c) == c \in Range(Digits)

\* int(c) for a digit character
DigitValue(c) == (CHOOSE i \in DOMAIN Digits : Digits[i] = c) - 1

LowerChar(c) ==
    IF IsUpper(c) THEN LowerCase[CHOOSE i \in DOMAIN UpperCase : UpperCase[i] = c] ELSE c

\* s.lower()
Lower(s) == [i \in DOMAIN s |-> LowerChar(s[i])]

-----------------------------------------------------------------------------
(* Python values a result is built from.  Every value is a record of the   *)
(* same four fields, so that any two values can be compared:               *)
(*   kind "str": s is the text;         kind "num": s is the number's text *)
(*   kind "lit": s is null/true/false/NaN/Infinity/-Infinity               *)
(*   kind "list": a is the sequence of items                               *)
(*   kind "dict": m is the function from key text to value                 *)

NoItems == <<>>
NoKeys == <<>>

PyStr(s) == [kind |-> "str", s |-> s, a |-> NoItems, m |-> NoKeys]
PyNum(s) == [kind |-> "num", s |-> s, a |-> NoItems, m |-> NoKeys]
PyLit(s) == [kind |-> "lit", s |-> s, a |-> NoItems, m |-> NoKeys]
PyList(a) == [kind |-> "list", s |-> <<>>, a |-> a, m |-> NoKeys]
PyDict(m) == [kind |-> "dict", s |-> <<>>, a |-> NoItems, m |-> m]
PyNone == [kind |-> "none", s |-> <<>>, a |-> NoItems, m |-> NoKeys]

\* d[k] = v on a dict: k is added, or its value replaced
SetItem(d, k, v) == PyDict((k :> v) @@ d.m)

\* a dict display {k1: v1, ...}, given as a sequence of <<key, value>> pairs
RECURSIVE DictOf(_)
DictOf(pairs) ==
    IF pairs = <<>> THEN PyDict(NoKeys)
    ELSE SetItem(DictOf(SubSeq(pairs, 1, Len(pairs) - 1)),
                 pairs[Len(pairs)][1], pairs[Len(pairs)][2])

Keys(d) == DOMAIN d.m

-----------------------------------------------------------------------------
(* json.loads, as json.decoder and json.scanner compute it.  Indices are   *)
(* 0-based as in the library.  A parse yields [ok, v, end]: ok is FALSE    *)
(* where the library raises JSONDecodeError.  Not modelled: \uXXXX escapes *)
(* and numeric equality of differently written numbers (a number's value   *)
(* is its text).                                                           *)

ParseFail == [ok |-> FALSE, v |-> PyLit(<<>>), end |-> 0]
Parsed(v, end) == [ok |-> TRUE, v |-> v, end |-> end]

\* s[i:i+1]
CharAt(s, i) == IF i < Len(s) THEN s[i + 1] ELSE ""

\* WHITESPACE.match(s, i).end()
RECURSIVE SkipWs(_, _)
SkipWs(s, i) == IF CharAt(s, i) \in Whitespace THEN SkipWs(s, i + 1) ELSE i

\* end of the run of digits that starts at i
RECURSIVE DigitsEnd(_, _)
DigitsEnd(s, i) == IF IsDigit(CharAt(s, i)) THEN DigitsEnd(s, i + 1) ELSE i

\* BACKSLASH of json.decoder, without \b (TLA+ has no such character)
Escapes == ("\"" :> "\"") @@ ("\\" :> "\\") @@ ("/" :> "/")
           @@ ("f" :> "\f") @@ ("n" :> "\n") @@ ("r" :> "\r") @@ ("t" :> "\t")

ControlChars == {"\n", "\t", "\r", "\f"}

\* json.decoder.scanstring(s, i, strict=True), i the index after the opening quote
RECURSIVE ScanString(_, _, _)
ScanString(s, i, acc) ==
    LET c == CharAt(s, i)
    IN  IF c = "" THEN ParseFail                         \* unterminated string
        ELSE IF c = "\"" THEN Parsed(acc, i + 1)
        ELSE IF c \in ControlChars THEN ParseFail        \* invalid control character
        ELSE IF c = "\\"
             THEN IF CharAt(s, i + 1) \in DOMAIN Escapes
                  THEN ScanString(s, i + 2, Append(acc, Escapes[CharAt(s, i + 1)]))
                  ELSE ParseFail
        ELSE ScanString(s, i + 1, Append(acc, c))

\* NUMBER_RE = (-?(?:0|[1-9]\d*))(\.\d+)?([eE][-+]?\d+)?, group by group: the
\* end of the integer part that starts at i (-1: none), then of the optional
\* fraction and of the optional exponent
IntPartEnd(s, i) ==
    IF CharAt(s, i) = "-"
    THEN IF CharAt(s, i + 1) = "0" THEN i + 2
         ELSE IF IsDigit(CharAt(s, i + 1)) THEN DigitsEnd(s, i + 1) ELSE -1
    ELSE IF CharAt(s, i) = "0" THEN i + 1
         ELSE IF IsDigit(CharAt(s, i)) THEN DigitsEnd(s, i) ELSE -1

FracPartEnd(s, i) ==
    IF CharAt(s, i) = "." /\ IsDigit(CharAt(s, i + 1)) THEN DigitsEnd(s, i + 1) ELSE i

ExpDigitsAt(s, i) == IF CharAt(s, i) \in {"+", "-"} THEN i + 1 ELSE i

ExpPartEnd(s, i) ==
    IF CharAt(s, i) \in {"e", "E"} /\ IsDigit(CharAt(s, ExpDigitsAt(s, i + 1)))
    THEN DigitsEnd(s, ExpDigitsAt(s, i + 1)) ELSE i

\* NUMBER_RE.match(s, i).end(), or -1 without a match
NumberEnd(s, i) ==
    IF IntPartEnd(s, i) = -1 THEN -1
    ELSE ExpPartEnd(s, FracPartEnd(s, IntPartEnd(s, i)))

Literals == <<<<"n","u","l","l">>, <<"t","r","u","e">>, <<"f","a","l","s","e">>, <<"N","a","N">>, <<"I","n","f","i","n","i","t","y">>, <<"-","I","n","f","i","n","i","t","y">>>>

RECURSIVE ScanOnce(_, _)
RECURSIVE ParseMembers(_, _, _)
RECURSIVE ParseItems(_, _, _)

\* JSONObject after the opening brace was consumed and the key's opening quote
\* is expected at i - 1: i is the index after that quote
ParseMembers(s, i, d) ==
    LET key == ScanString(s, i, <<>>)
        c1  == IF key.ok THEN SkipWs(s, key.end) ELSE 0
        val == IF key.ok /\ CharAt(s, c1) = ":"
               THEN ScanOnce(s, SkipWs(s, c1 + 1)) ELSE ParseFail
        e1  == IF val.ok THEN SkipWs(s, val.end) ELSE 0
        d1  == SetItem(d, key.v, val.v)
        e2  == SkipWs(s, e1 + 1)
    IN  IF ~val.ok THEN ParseFail
        ELSE IF CharAt(s, e1) = "}" THEN Parsed(d1, e1 + 1)
        ELSE IF CharAt(s, e1) # "," THEN ParseFail
        ELSE IF CharAt(s, e2) # "\"" THEN ParseFail
        ELSE ParseMembers(s, e2 + 1, d1)

\* JSONArray from the first item on
ParseItems(s, i, items) ==
    LET val == ScanOnce(s, i)
        e1  == IF val.ok THEN SkipWs(s, val.end) ELSE 0
        l1  == Append(items, val.v)
    IN  IF ~val.ok THEN ParseFail
        ELSE IF CharAt(s, e1) = "]" THEN Parsed(PyList(l1), e1 + 1)
        ELSE IF CharAt(s, e1) # "," THEN ParseFail
        ELSE ParseItems(s, SkipWs(s, e1 + 1), l1)

\* json.scanner: scan_once(s, i)
ScanOnce(s, i) ==
    LET c    == CharAt(s, i)
        lits == {k \in DOMAIN Literals : StartsAt(s, Literals[k], i)}
        nend == NumberEnd(s, i)
    IN  IF c = "" THEN ParseFail
        ELSE IF c = "\""
             THEN LET str == ScanString(s, i + 1, <<>>)
                  IN  IF str.ok THEN Parsed(PyStr(str.v), str.end) ELSE ParseFail
        ELSE IF c = "{"
             THEN LET j == SkipWs(s, i + 1)
                  IN  IF CharAt(s, j) = "}" THEN Parsed(PyDict(NoKeys), j + 1)
                      ELSE IF CharAt(s, j) # "\"" THEN ParseFail
                      ELSE ParseMembers(s, j + 1, PyDict(NoKeys))
        ELSE IF c = "["
             THEN LET j == SkipWs(s, i + 1)
                  IN  IF CharAt(s, j) = "]" THEN Parsed(PyList(<<>>), j + 1)
                      ELSE ParseItems(s, j, <<>>)
        ELSE IF nend # -1 THEN Parsed(PyNum(Slice(s, i, nend)), nend)
        ELSE IF lits # {}
             THEN LET k == CHOOSE k \in lits : TRUE
                  IN  Parsed(PyLit(Literals[k]), i + Len(Literals[k]))
        ELSE ParseFail

\* json.loads(s): ok is FALSE where it raises JSONDecodeError
JsonLoads(s) ==
    LET r == ScanOnce(s, SkipWs(s, 0))
    IN  IF r.ok /\ SkipWs(s, r.end) = Len(s) THEN r ELSE ParseFail

-----------------------------------------------------------------------------
(* Exceptions: [type, msg].  Subclass(t, c): an except clause for class c   *)
(* catches an exception of type t.                                          *)

Raise(type, msg) == [type |-> type, msg |-> msg]

\* A faulty variant of Subclass: an except clause catches only the class it names (as if
\* line 240 were "except RuntimeError").
SubclassExactOnly(t, c) == c # "Exception" /\ t = c

Subclass(t, c) ==
    \/ t = c
    \/ c = "Exception"
    \/ c = "ValueError" /\ t = "JSONDecodeError"

\* how a call or a block of code ends: it returns a value (from the return
\* statement at a source line) or raises an exception
Returns(v, line) == [raised |-> FALSE, value |-> v, exc |-> Raise("", <<>>), line |-> line]
Raises(e) == [raised |-> TRUE, value |-> PyNone, exc |-> e, line |-> 0]

-----------------------------------------------------------------------------
(* GeminiModelManager *)

\* not x, for x None or a str
Falsy(x) == x = None \/ x = <<>>

\* A faulty variant of EnsureConfigured: the placeholder credential is not told apart.
EnsureConfiguredAnyKey(key, configure_raises) ==
    IF ~Falsy(key) THEN ~configure_raises ELSE FALSE

\* _ensure_configured, run by __init__ with configured = False: the value of
\* self.configured afterwards.  configure_raises: genai.configure raises.
EnsureConfigured(key, configure_raises) ==
    IF ~Falsy(key) /\ key # <<"Y","O","U","R","_","A","P","I","_","K","E","Y","_","H","E","R","E">>
    THEN ~configure_raises
    ELSE FALSE

\* int(s) for a run of digits
RECURSIVE IntOf(_)
IntOf(s) == IF s = <<>> THEN 0 ELSE 10 * IntOf(SubSeq(s, 1, Len(s) - 1)) + DigitValue(s[Len(s)])

RECURSIVE Pow10(_)
Pow10(k) == IF k = 0 THEN 1 ELSE 10 * Pow10(k - 1)

\* score(n): float(re.search(r'(\d+(?:\.\d+)?)', n).group(1)), or 0.0 without a
\* match.  The float is kept exactly, as the fraction num/den.
score(n) ==
    LET starts == {i \in 0..(Len(n) - 1) : IsDigit(CharAt(n, i))}
        i0 == CHOOSE i \in starts : \A j \in starts : i <= j
        i1 == DigitsEnd(n, i0)
        i2 == IF CharAt(n, i1) = "." /\ IsDigit(CharAt(n, i1 + 1))
              THEN DigitsEnd(n, i1 + 1) ELSE i1
        frac == IF i2 > i1 THEN Slice(n, i1 + 1, i2) ELSE <<>>
    IN  IF starts = {} THEN [num |-> 0, den |-> 1]
        ELSE [num |-> IntOf(Slice(n, i0, i1)) * Pow10(Len(frac)) + IntOf(frac),
              den |-> Pow10(Len(frac))]

\* a < b for two scores
ScoreLess(a, b) == a.num * b.den < b.num * a.den

\* where list.sort(key=score, reverse=True) puts x among the already sorted: the
\* sort is stable, so x stays behind every element whose score is not smaller
RECURSIVE InsertByScore(_, _)
InsertByScore(sorted, x) ==
    IF sorted = <<>> THEN <<x>>
    ELSE IF ScoreLess(score(Head(sorted)), score(x)) THEN <<x>> \o sorted
    ELSE <<Head(sorted)>> \o InsertByScore(Tail(sorted), x)

\* A faulty variant of SortCandidates: the sort without reverse=True, lowest score first.
RECURSIVE SortAscending(_)
SortAscending(names) ==
    IF names = <<>> THEN <<>>
    ELSE LET rest == SortAscending(SubSeq(names, 1, Len(names) - 1))
             x == names[Len(names)]
             before == SelectSeq(rest, LAMBDA y : ~ScoreLess(score(x), score(y)))
             after == SelectSeq(rest, LAMBDA y : ScoreLess(score(x), score(y)))
         IN  before \o <<x>> \o after

\* candidates.sort(key=lambda x: score(x), reverse=True)
RECURSIVE SortCandidates(_)
SortCandidates(names) ==
    IF names = <<>> THEN <<>>
    ELSE InsertByScore(SortCandidates(SubSeq(names, 1, Len(names) - 1)), names[Len(names)])

\* A faulty variant of CachedHandle: get_selected_model never takes the stored
\* handle and selects anew in every call.
NeverCached(name) == FALSE

\* get_selected_model, line 98: a handle is cached
CachedHandle(name) == ~Falsy(name)

\* A faulty variant of WorkingCandidate: the best-ranked candidate is stored and returned,
\* whichever candidate answered.
BestRankedCandidate(sorted, i) == sorted[1]

\* pick_working_model, lines 92-93: the candidate whose probe answered, at
\* position i of the sorted candidates, is stored and returned
WorkingCandidate(sorted, i) == sorted[i]

\* list_models (lines 66-73): the names of the listed models that have one, []
\* when unconfigured or when genai.list_models() raises.  listing is how that
\* call ends: it raises, or returns the listed models' names (None for a
\* model without a name).
list_models(is_configured, listing) ==
    IF ~is_configured THEN <<>>
    ELSE IF listing.raised THEN <<>>
    ELSE SelectSeq(listing.value, LAMBDA name : ~Falsy(name))

\* candidates = [name for name in models if "gemini" in name.lower()]
FilterCandidates(names) ==
    SelectSeq(names, LAMBDA name : Contains(Lower(name), <<"g","e","m","i","n","i">>))

NotConfiguredError == Raise("RuntimeError", <<"G","e","m","i","n","i"," ","A","P","I"," ","n","o","t"," ",
                                              "c","o","n","f","i","g","u","r","e","d">>)
NoWorkingModelError ==
    Raise("RuntimeError", <<"N","o"," ","w","o","r","k","i","n","g"," ","G","e","m","i","n","i",
                            " ","m","o","d","e","l"," ","f","o","u","n","d"," ","f","o","r"," ",
                            "g","e","n","e","r","a","t","e","C","o","n","t","e","n","t">>)

-----------------------------------------------------------------------------
(* GeminiFIAnalyzer: the results *)

\* datetime.now().isoformat() when the clock reads t
Isoformat(t) == <<"2","0","2","5","-","0","9","-","0","5","T","2","3",":","4","5",":","0">> \o <<Digits[t + 1]>>

EmptyLegalMapping ==
    DictOf(<< <<<<"B","N","S"," ","2","0","2","3">>, PyList(<<>>)>>,
              <<<<"S","C","/","S","T"," ","A","t","r","o","c","i","t","i","e","s"," ","A","c","t",
                  ","," ","1","9","8","9">>, PyList(<<>>)>>,
              <<<<"A","r","m","s"," ","A","c","t",","," ","1","9","5","9">>, PyList(<<>>)>>,
              <<<<"M","o","t","o","r"," ","V","e","h","i","c","l","e","s"," ","A","c","t",","," ",
                  "1","9","8","8">>, PyList(<<>>)>> >>)

\* _fallback_response(error_msg) when the clock reads t
FallbackResponse(error_msg, t) ==
    DictOf(<<
      <<<<"e","x","t","r","a","c","t","e","d","_","i","n","f","o">>, DictOf(<<
          <<<<"C","o","m","p","l","a","i","n","a","n","t">>, DictOf(<< <<<<"N","a","m","e">>, PyStr(<<"A","n","a","l","y","s","i","s"," ","F","a","i","l","e","d">>)>>,
                                        <<<<"E","r","r","o","r">>, PyStr(error_msg)>> >>)>>,
          <<<<"D","a","t","e","T","i","m","e">>, PyStr(<<"N","/","A">>)>>,
          <<<<"P","l","a","c","e">>, PyStr(<<"N","/","A">>)>>,
          <<<<"A","c","c","u","s","e","d">>, PyList(<<>>)>>,
          <<<<"V","e","h","i","c","l","e","s">>, PyList(<<>>)>>,
          <<<<"W","e","a","p","o","n","s","U","s","e","d">>, PyList(<<>>)>>,
          <<<<"O","f","f","e","n","c","e","s">>, PyList(<<>>)>>,
          <<<<"I","n","j","u","r","i","e","s">>, PyStr(<<"N","/","A">>)>>,
          <<<<"P","r","o","p","e","r","t","y","L","o","s","s">>, PyList(<<>>)>>,
          <<<<"T","h","r","e","a","t","s">>, PyList(<<>>)>>,
          <<<<"W","i","t","n","e","s","s","e","s">>, PyList(<<>>)>>,
          <<<<"I","m","p","a","c","t">>, PyStr(<<"A","n","a","l","y","s","i","s"," ","f","a","i","l","e","d"," ",
                                 "-"," ">> \o error_msg)>> >>)>>,
      <<<<"l","e","g","a","l","_","m","a","p","p","i","n","g">>, EmptyLegalMapping>>,
      <<<<"l","e","g","a","l","_","a","n","a","l","y","s","i","s">>,
        PyStr(<<"A","n","a","l","y","s","i","s"," ","c","o","u","l","d"," ","n","o","t"," ","b",
                "e"," ","c","o","m","p","l","e","t","e","d","."," ","E","r","r","o","r",":"," ">> \o error_msg)>>,
      <<<<"t","i","m","e","s","t","a","m","p">>, PyStr(Isoformat(t))>>,
      <<<<"m","o","d","e","l","_","u","s","e","d">>, PyStr(<<"n","o","n","e">>)>> >>)

\* re.match(r'[A-Z]{2}-\d{2}-[A-Z]{1,2}-\d{4}', s, i): the end of the match, or -1
PlateEnd(s, i) ==
    LET head == /\ IsUpper(CharAt(s, i)) /\ IsUpper(CharAt(s, i + 1))
                /\ CharAt(s, i + 2) = "-"
                /\ IsDigit(CharAt(s, i + 3)) /\ IsDigit(CharAt(s, i + 4))
                /\ CharAt(s, i + 5) = "-"
                /\ IsUpper(CharAt(s, i + 6))
        tail(j) == /\ CharAt(s, j) = "-"
                   /\ \A k \in 1..4 : IsDigit(CharAt(s, j + k))
    IN  IF head /\ IsUpper(CharAt(s, i + 7)) /\ tail(i + 8) THEN i + 13
        ELSE IF head /\ tail(i + 7) THEN i + 12
        ELSE -1

\* re.findall of the plate pattern in s from index i on
RECURSIVE FindPlates(_, _)
FindPlates(s, i) ==
    IF i >= Len(s) THEN <<>>
    ELSE IF PlateEnd(s, i) # -1
         THEN <<PyStr(Slice(s, i, PlateEnd(s, i)))>> \o FindPlates(s, PlateEnd(s, i))
    ELSE FindPlates(s, i + 1)

weapons_keywords ==
    <<<<"k","n","i","f","e">>, <<"p","i","s","t","o","l">>, <<"g","u","n">>, <<"r","o","d">>, <<"s","t","i","c","k">>, <<"w","e","a","p","o","n">>, <<"f","i","r","e","a","r","m">>>>

\* A faulty variant of WeaponsUsed: a keyword is appended where the text first
\* mentions it, so the list follows the text's order.
WeaponsInTextOrder(original_fir) ==
    LET low == Lower(original_fir)
        found == SelectSeq(weapons_keywords, LAMBDA w : Contains(low, w))
        Before(v, w) == Find(low, v) < Find(low, w)
        Rank(w) == 1 + Cardinality({v \in Range(found) : Before(v, w)})
    IN  [i \in DOMAIN found |->
           PyStr(CHOOSE w \in Range(found) : Rank(w) = i)]

\* the loop over weapons_keywords: the keywords found in original_fir.lower()
WeaponsUsed(original_fir) ==
    LET found == SelectSeq(weapons_keywords, LAMBDA w : Contains(Lower(original_fir), w))
    IN  [i \in DOMAIN found |-> PyStr(found[i])]

\* A faulty variant of AnyWord: the keywords are looked for in the text as
\* written, without lower().
AnyWordAsWritten(original_fir, words) == \E w \in words : Contains(original_fir, w)

\* any(word in original_fir.lower() for word in words)
AnyWord(original_fir, words) == \E w \in words : Contains(Lower(original_fir), w)

\* the citations appended to legal_mapping["BNS 2023"], in the order of the ifs
BnsSections(original_fir) ==
    (IF AnyWord(original_fir, {<<"r","o","b","b","e","r","y">>, <<"s","n","a","t","c","h","e","d">>, <<"f","o","r","c","i","b","l","y"," ","t","o","o","k">>})
     THEN <<PyStr(<<"S","e","c","t","i","o","n"," ","3","0","9","(","2",")"," ","-"," ","R","o",
                    "b","b","e","r","y",":"," ","F","o","r","c","i","b","l","e"," ","t","a","k",
                    "i","n","g"," ","o","f"," ","p","r","o","p","e","r","t","y">>)>> ELSE <<>>)
    \o
    (IF AnyWord(original_fir, {<<"t","h","r","e","a","t","e","n","e","d">>, <<"t","h","r","e","a","t">>, <<"i","n","t","i","m","i","d","a","t">>})
     THEN <<PyStr(<<"S","e","c","t","i","o","n"," ","3","5","1","(","2",")"," ","-"," ","C","r",
                    "i","m","i","n","a","l"," ","i","n","t","i","m","i","d","a","t","i","o","n">>)>> ELSE <<>>)
    \o
    (IF AnyWord(original_fir, {<<"i","n","j","u","r","y">>, <<"h","u","r","t">>, <<"i","n","j","u","r","e","d">>, <<"b","l","e","e","d","i","n","g">>})
     THEN <<PyStr(<<"S","e","c","t","i","o","n"," ","1","1","5","(","2",")"," ","-"," ","V","o",
                    "l","u","n","t","a","r","i","l","y"," ","c","a","u","s","i","n","g"," ","h",
                    "u","r","t">>)>> ELSE <<>>)

ScStSections(original_fir) ==
    IF AnyWord(original_fir, {<<"c","a","s","t","e">>, <<"s","c","h","e","d","u","l","e","d"," ","c","a","s","t","e">>, <<"s","c","/","s","t">>})
    THEN <<PyStr(<<"S","e","c","t","i","o","n"," ","3","(","1",")","(","r",")"," ","-"," ","I",
                   "n","t","e","n","t","i","o","n","a","l"," ","i","n","s","u","l","t","/","a",
                   "b","u","s","e">>)>> ELSE <<>>

ArmsSections(original_fir) ==
    IF AnyWord(original_fir, {<<"p","i","s","t","o","l">>, <<"g","u","n">>, <<"f","i","r","e","a","r","m">>})
    THEN <<PyStr(<<"S","e","c","t","i","o","n"," ","2","5"," ","-"," ","P","o","s","s","e","s",
                   "s","i","o","n","/","u","s","e"," ","o","f"," ","p","r","o","h","i","b","i",
                   "t","e","d"," ","a","r","m","s">>),
           PyStr(<<"S","e","c","t","i","o","n"," ","2","7"," ","-"," ","U","s","e"," ","o","f",
                   " ","a","r","m","s"," ","i","n"," ","c","o","m","m","i","s","s","i","o","n",
                   " ","o","f"," ","o","f","f","e","n","c","e">>)>>
    ELSE <<>>

\* the fallback notice of extract_from_text_response
FallbackNotice(name) ==
    <<"A","n","a","l","y","s","i","s"," ","c","o","m","p","l","e","t","e","d"," ","w","i","t","h",
      " ","f","a","l","l","b","a","c","k"," ","m","e","t","h","o","d"," ","u","s","i","n","g"," ",
      "m","o","d","e","l"," ">> \o name
    \o <<"."," ","P","l","e","a","s","e"," ","r","e","v","i","e","w"," ","t","h","e"," ","e","x",
         "t","r","a","c","t","e","d"," ","i","n","f","o","r","m","a","t","i","o","n"," ","m","a",
         "n","u","a","l","l","y",".">>

\* A faulty variant of extract_from_text_response: the Motor Vehicles Act entry and the
\* Witnesses field are left out.
ExtractWithoutSomeKeys(response_text, original_fir, name, t) ==
    DictOf(<<
      <<<<"e","x","t","r","a","c","t","e","d","_","i","n","f","o">>, DictOf(<<
          <<<<"C","o","m","p","l","a","i","n","a","n","t">>, PyDict(NoKeys)>>,
          <<<<"D","a","t","e","T","i","m","e">>, PyStr(<<>>)>>,
          <<<<"P","l","a","c","e">>, PyStr(<<>>)>>,
          <<<<"A","c","c","u","s","e","d">>, PyList(<<>>)>>,
          <<<<"V","e","h","i","c","l","e","s">>, PyList(FindPlates(original_fir, 0))>>,
          <<<<"W","e","a","p","o","n","s","U","s","e","d">>, PyList(WeaponsUsed(original_fir))>>,
          <<<<"O","f","f","e","n","c","e","s">>, PyList(<<>>)>>,
          <<<<"I","n","j","u","r","i","e","s">>, PyStr(<<>>)>>,
          <<<<"P","r","o","p","e","r","t","y","L","o","s","s">>, PyList(<<>>)>>,
          <<<<"T","h","r","e","a","t","s">>, PyList(<<>>)>>,
          <<<<"I","m","p","a","c","t">>, PyStr(<<>>)>> >>)>>,
      <<<<"l","e","g","a","l","_","m","a","p","p","i","n","g">>, DictOf(<<
          <<<<"B","N","S"," ","2","0","2","3">>, PyList(BnsSections(original_fir))>>,
          <<<<"S","C","/","S","T"," ","A","t","r","o","c","i","t","i","e","s"," ","A","c","t",",",
              " ","1","9","8","9">>, PyList(ScStSections(original_fir))>>,
          <<<<"A","r","m","s"," ","A","c","t",","," ","1","9","5","9">>, PyList(ArmsSections(original_fir))>> >>)>>,
      <<<<"l","e","g","a","l","_","a","n","a","l","y","s","i","s">>, PyStr(FallbackNotice(name))>>,
      <<<<"t","i","m","e","s","t","a","m","p">>, PyStr(Isoformat(t))>>,
      <<<<"m","o","d","e","l","_","u","s","e","d">>, PyStr(name)>> >>)

\* extract_from_text_response(response_text, original_fir, model_name), clock at t
extract_from_text_response(response_text, original_fir, name, t) ==
    DictOf(<<
      <<<<"e","x","t","r","a","c","t","e","d","_","i","n","f","o">>, DictOf(<<
          <<<<"C","o","m","p","l","a","i","n","a","n","t">>, PyDict(NoKeys)>>,
          <<<<"D","a","t","e","T","i","m","e">>, PyStr(<<>>)>>,
          <<<<"P","l","a","c","e">>, PyStr(<<>>)>>,
          <<<<"A","c","c","u","s","e","d">>, PyList(<<>>)>>,
          <<<<"V","e","h","i","c","l","e","s">>, PyList(FindPlates(original_fir, 0))>>,
          <<<<"W","e","a","p","o","n","s","U","s","e","d">>, PyList(WeaponsUsed(original_fir))>>,
          <<<<"O","f","f","e","n","c","e","s">>, PyList(<<>>)>>,
          <<<<"I","n","j","u","r","i","e","s">>, PyStr(<<>>)>>,
          <<<<"P","r","o","p","e","r","t","y","L","o","s","s">>, PyList(<<>>)>>,
          <<<<"T","h","r","e","a","t","s">>, PyList(<<>>)>>,
          <<<<"W","i","t","n","e","s","s","e","s">>, PyList(<<>>)>>,
          <<<<"I","m","p","a","c","t">>, PyStr(<<>>)>> >>)>>,
      <<<<"l","e","g","a","l","_","m","a","p","p","i","n","g">>, DictOf(<<
          <<<<"B","N","S"," ","2","0","2","3">>, PyList(BnsSections(original_fir))>>,
          <<<<"S","C","/","S","T"," ","A","t","r","o","c","i","t","i","e","s"," ","A","c","t",",",
              " ","1","9","8","9">>, PyList(ScStSections(original_fir))>>,
          <<<<"A","r","m","s"," ","A","c","t",","," ","1","9","5","9">>, PyList(ArmsSections(original_fir))>>,
          <<<<"M","o","t","o","r"," ","V","e","h","i","c","l","e","s"," ","A","c","t",","," ","1",
              "9","8","8">>, PyList(<<>>)>> >>)>>,
      <<<<"l","e","g","a","l","_","a","n","a","l","y","s","i","s">>, PyStr(FallbackNotice(name))>>,
      <<<<"t","i","m","e","s","t","a","m","p">>, PyStr(Isoformat(t))>>,
      <<<<"m","o","d","e","l","_","u","s","e","d">>, PyStr(name)>> >>)

-----------------------------------------------------------------------------
(* GeminiFIAnalyzer.analyze_with_gemini, lines 119-241 *)

\* try: body / except cls: whether the except clause catches how body ended
Caught(body, cls) == body.raised /\ Subclass(body.exc.type, cls)

\* the prompt f-string (lines 121-217); the reference text around the FIR is
\* cut down to its nearest lines
Prompt(fir) == <<"F","I","R"," ","T","E","X","T",":","\n">> \o fir \o <<"\n","\n","E","X","T","R","A","C","T","I","O","N"," ","R",
                                            "E","Q","U","I","R","E","M","E","N","T","S",":">>

\* lines 219-222: strip, remove the fence markers, strip
CleanResponse(text) == Strip(Remove(Remove(Strip(text), <<BT,BT,BT,"j","s","o","n">>), <<BT,BT,BT>>))

\* lines 225-230: the text from the first { to the last }, or all of it
JsonText(response_text) ==
    LET start_idx == Find(response_text, <<"{">>)
        end_idx   == RFind(response_text, <<"}">>) + 1
    IN  IF start_idx # -1 /\ end_idx # 0
        THEN Slice(response_text, start_idx, end_idx)
        ELSE response_text

\* type(v).__name__ of a decoded value
TypeName(v) ==
    IF v.kind = "str" THEN <<"s","t","r">>
    ELSE IF v.kind = "num"
         THEN IF \E c \in Range(v.s) : c \in {".", "e", "E"} THEN <<"f","l","o","a","t">> ELSE <<"i","n","t">>
    ELSE IF v.kind = "lit"
         THEN IF v.s = <<"n","u","l","l">> THEN <<"N","o","n","e","T","y","p","e">>
              ELSE IF v.s \in {<<"t","r","u","e">>, <<"f","a","l","s","e">>} THEN <<"b","o","o","l">> ELSE <<"f","l","o","a","t">>
    ELSE IF v.kind = "list" THEN <<"l","i","s","t">>
    ELSE <<"d","i","c","t">>

\* v[key] = ... on a value that is no dict
ItemAssignmentError(v) ==
    Raise("TypeError",
          IF v.kind = "list" THEN <<"l","i","s","t"," ","i","n","d","i","c","e","s"," ","m","u",
                                    "s","t"," ","b","e"," ","i","n","t","e","g","e","r","s"," ",
                                    "o","r"," ","s","l","i","c","e","s",","," ","n","o","t"," ",
                                    "s","t","r">>
          ELSE <<"'">> \o TypeName(v) \o <<"'"," ","o","b","j","e","c","t"," ","d","o","e","s"," ","n",
                                          "o","t"," ","s","u","p","p","o","r","t"," ","i","t","e","m",
                                          " ","a","s","s","i","g","n","m","e","n","t">>)

\* A faulty variant of InjectMetadata: timestamp and model_used are set only
\* where the payload does not hold them (dict.setdefault).
InjectKeepingPayload(v, name, t) ==
    IF v.kind = "dict"
    THEN Returns(PyDict(v.m @@ (<<"t","i","m","e","s","t","a","m","p">> :> PyStr(Isoformat(t)))
                            @@ (<<"m","o","d","e","l","_","u","s","e","d">> :> PyStr(name))), 236)
    ELSE Raises(ItemAssignmentError(v))

\* lines 234-236: set timestamp and model_used on the decoded value, return it
InjectMetadata(v, name, t) ==
    IF v.kind = "dict"
    THEN Returns(SetItem(SetItem(v, <<"t","i","m","e","s","t","a","m","p">>, PyStr(Isoformat(t))),
                         <<"m","o","d","e","l","_","u","s","e","d">>, PyStr(name)), 236)
    ELSE Raises(ItemAssignmentError(v))

\* lines 233-236, the body of the inner try: r is how json.loads ended
DecodeAndInject(r, name, t) ==
    IF r.ok THEN InjectMetadata(r.v, name, t)
    ELSE Raises(Raise("JSONDecodeError", <<"E","x","p","e","c","t","i","n","g"," ","v","a","l","u","e">>))

\* lines 237-239: except json.JSONDecodeError around that body
ExceptDecodeError(body, response_text, original_fir, name, t) ==
    IF Caught(body, "JSONDecodeError")
    THEN Returns(extract_from_text_response(response_text, original_fir, name, t), 239)
    ELSE body

\* lines 232-239: try json.loads / except json.JSONDecodeError
DecodeOrExtract(response_text, original_fir, name, t) ==
    ExceptDecodeError(DecodeAndInject(JsonLoads(JsonText(response_text)), name, t),
                      response_text, original_fir, name, t)

\* lines 240-241: except Exception around the whole request
ExceptException(body, t) ==
    IF Caught(body, "Exception")
    THEN Returns(FallbackResponse(<<"G","e","m","i","n","i"," ","A","P","I"," ","e","r","r","o",
                                    "r",":"," ">> \o body.exc.msg, t), 241)
    ELSE body

\* lines 119-241: the try block around the completion request.  completion is
\* how model.generate_content(prompt) and response.text end.
RequestAndNormalize(name, original_fir, completion, t) ==
    ExceptException(IF completion.raised THEN completion
                    ELSE DecodeOrExtract(CleanResponse(completion.value),
                                         original_fir, name, t),
                    t)

\* lines 113-118 once pick_working_model raised e: get_selected_model (pass 1)
\* swallows it and analyze calls pick_working_model again; the second call's
\* exception (pass 2) ends analyze with the fallback response
PickRaised(e, which, t) ==
    IF ~Caught(Raises(e), "Exception") THEN Raises(e)
    ELSE IF which = 1 THEN Returns(PyStr(<<>>), 104)
    ELSE Returns(FallbackResponse(<<"G","e","m","i","n","i"," ","m","o","d","e","l"," ","e","r",
                                    "r","o","r",":"," ">> \o e.msg, t), 118)

-----------------------------------------------------------------------------
(* The inputs: credentials, the backend's behaviour, report texts *)

\* Spec: several analyze calls on one analyzer, every completion and report
\* text, listings of at most MaxListed models.  SpecSelect: the first analyze
\* call on a fresh analyzer, every listing of at most MaxSelectListed models,
\* a few completions.
MaxCalls == 2           \* analyze calls on one analyzer instance, Spec
MaxListed == 1          \* models in one listing, Spec
MaxSelectListed == 3    \* models in one listing, SpecSelect
MaxPhrases == 2         \* phrases in one report text, SpecExtract

ApiKeys == {None, <<>>, <<"Y","O","U","R","_","A","P","I","_","K","E","Y","_","H","E","R","E">>, <<"A","I","z","a","S","y">>}

\* names a listing may hold; None is a listed model without a name
Catalog == {<<"m","o","d","e","l","s","/","g","e","m","i","n","i","-","1",".","0">>, <<"m","o","d","e","l","s","/","g","e","m","i","n","i","-","2",
                                      ".","5">>, <<"m","o","d","e","l","s","/","g","e","m","i","n","i","-","b",
                                                              "e","t","a">>,
            <<"m","o","d","e","l","s","/","G","e","m","i","n","i","-","2",".","5","0","-","P","r",
              "o">>, <<"m","o","d","e","l","s","/","t","e","x","t","-","b","i","s",
                                           "o","n","-","0","0","1">>, None}

RECURSIVE SeqsUpTo(_, _)
SeqsUpTo(S, n) ==
    IF n = 0 THEN {<<>>}
    ELSE LET shorter == SeqsUpTo(S, n - 1)
         IN  shorter \cup {Append(q, x) : q \in shorter, x \in S}

\* what genai.list_models() may do: raise, or list up to MaxListed models, no
\* model twice
Listings(n) ==
    {Raises(Raise("ServiceUnavailable", <<"5","0","3"," ","u","n","a","v","a","i","l","a","b","l","e">>))}
    \cup {Returns(q, 70) : q \in {q \in SeqsUpTo(Catalog, n) :
                                     \A i, j \in DOMAIN q : q[i] = q[j] => i = j}}

\* how a backend request may fail: generate_content raises, or the response
\* holds no text and response.text raises
BackendFailures ==
    {Raises(Raise("ResourceExhausted", <<"4","2","9"," ","q","u","o","t","a"," ","e","x","c","e","e",
                                         "d","e","d">>)),
     Raises(Raise("ValueError", <<"r","e","s","p","o","n","s","e",".","t","e","x","t"," ","r","e",
                                  "q","u","i","r","e","s"," ","a"," ","v","a","l","i","d"," ","P",
                                  "a","r","t">>))}

\* texts a completion may hold
Completions ==
    {<<"{","\"","a","\"",":"," ","1","}">>,
     <<BT,BT,BT,"j","s","o","n","\n","{","\"","a","\"",":"," ","1","}","\n",BT,BT,BT>>,
     <<"H","e","r","e"," ","i","s"," ","t","h","e"," ","a","n","a","l","y","s","i","s",":"," ",
       "{","\"","a","\"",":"," ","1","}"," ","D","o","n","e",".">>,
     <<" ","\n","{","\"","l","e","g","a","l","_","a","n","a","l","y","s","i","s","\"",":"," ",
       "\"","o","k","\"",","," ","\"","t","i","m","e","s","t","a","m","p","\"",":"," ","\"","t",
       "\"",","," ","\"","m","o","d","e","l","_","u","s","e","d","\"",":"," ","\"","m","\"","}",
       "\n">>,
     <<"{","}">>,
     <<"{","\"","n","o","t","e","\"",":"," ","\"","n","o"," ",BT,BT,BT," ","f","e","n","c","e",
       "s","\"","}">>,
     <<BT,BT,BT,"j","s","o","n","\n","{","\"","l","a","n","g","\"",":"," ","\"",BT,BT,BT,"j","s",
       "o","n","\"","}","\n",BT,BT,BT>>,
     <<"[","1",","," ","2">> \o <<"]">>,
     <<"4","2">>,
     <<"n","u","l","l">>,
     <<"\"","{","\"">>,
     <<BT,BT,BT,"j","s","o","n","\n","\"","d","o","n","e","\"","\n",BT,BT,BT>>,
     <<"I"," ","c","a","n","n","o","t"," ","h","e","l","p"," ","w","i","t","h"," ","t","h","a",
       "t",".">>,
     <<"{","\"","a","\"",":"," ","1">>,
     <<"}"," ","{">>,
     <<"N","o","t","e"," ","{","s","e","e"," ","b","e","l","o","w","}",":"," ","{","\"","a","\"",
       ":"," ","1","}">>,
     <<"{","\"","a","\"",":"," ","1",",","}">>,
     <<>>}

SpecListings == Listings(MaxListed)
SelectListings == Listings(MaxSelectListed)

CompletionOutcomes == BackendFailures \cup {Returns(c, 218) : c \in Completions}

SelectCompletionOutcomes ==
    {Raises(Raise("ResourceExhausted", <<"4","2","9"," ","q","u","o","t","a"," ","e","x","c","e","e",
                                         "d","e","d">>)),
     Returns(<<"{","\"","a","\"",":"," ","1","}">>, 218),
     Returns(<<"I"," ","c","a","n","n","o","t"," ","h","e","l","p"," ","w","i","t","h"," ","t",
               "h","a","t",".">>, 218)}

FirTexts ==
    {<<"H","e"," ","t","h","r","e","a","t","e","n","e","d"," ","m","e"," ","w","i","t","h"," ",
       "a"," ","P","i","s","t","o","l">>,
     <<"T","S","-","0","9","-","F","Q","-","5","6","7","8"," ","h","i","t"," ","T","S","-","1",
       "0","-","A","B","-","3","2","1","0",";"," ","i","r","o","n"," ","r","o","d",","," ","k",
       "n","i","f","e">>,
     <<"N","o","t","h","i","n","g"," ","h","a","p","p","e","n","e","d">>}

\* phrases a report text is put together from, in the cases a report is
\* written in: keywords, words that hold a keyword, and words holding none
Phrases ==
    {<<"T","h","r","e","a","t","e","n","e","d">>, <<"P","I","S","T","O","L">>, <<"K","n","i","f","e">>, <<"i","r","o","n"," ","r","o","d">>, <<"b","e","g","u","n">>,
     <<"F","i","r","e","a","r","m">>, <<"w","e","a","p","o","n">>, <<"S","t","i","c","k">>, <<"S","c","h","e","d","u","l","e","d"," ","C","a","s","t","e">>, <<"h","u","r","t">>,
     <<"s","n","a","t","c","h","e","d">>, <<"w","a","l","k","e","d"," ","h","o","m","e">>}

\* the phrases of ps, joined by ", "
RECURSIVE JoinPhrases(_)
JoinPhrases(ps) ==
    IF ps = <<>> THEN <<>>
    ELSE IF Len(ps) = 1 THEN ps[1]
    ELSE ps[1] \o <<","," ">> \o JoinPhrases(Tail(ps))

\* report texts of at most MaxPhrases phrases, the empty text among them
PhraseTexts == {JoinPhrases(ps) : ps \in SeqsUpTo(Phrases, MaxPhrases)}

-----------------------------------------------------------------------------
(* The state machine *)

NoProbes == [n \in Catalog |-> 0]

\* GeminiFIAnalyzer(api_key): the manager's __init__ ran _ensure_configured
Init ==
    /\ api_key \in ApiKeys
    /\ configure_raised \in BOOLEAN
    /\ configure_raised => ~Falsy(api_key) /\ api_key # <<"Y","O","U","R","_","A","P","I","_","K","E","Y","_","H","E",
                                                          "R","E">>
    /\ configured = EnsureConfigured(api_key, configure_raised)
    /\ selected_model_name = None
    /\ pc = "idle"
    /\ pass = 0
    /\ fir_text = <<>>
    /\ models = <<>>
    /\ candidates = <<>>
    /\ idx = 1
    /\ probed = <<>>
    /\ picked = "none"
    /\ model_name = None
    /\ list_calls = 0
    /\ probe_count = NoProbes
    /\ prompts = <<>>
    /\ response = None
    /\ decoded = PyNone
    /\ result = PyNone
    /\ returned_at = 0
    /\ outcome = "none"
    /\ now = 0

\* analyze_with_gemini returns or raises
Finish(out) ==
    /\ pc' = "idle"
    /\ result' = out.value
    /\ returned_at' = out.line
    /\ outcome' = IF out.raised THEN "raised" ELSE "returned"

\* analyze_with_gemini(fir), lines 110-114: the configuration check and
\* get_selected_model up to its call of pick_working_model
Analyze(fir, max_calls) ==
    /\ pc = "idle"
    /\ now < max_calls
    /\ now' = now + 1
    /\ fir_text' = fir
    /\ models' = <<>> /\ candidates' = <<>> /\ idx' = 1 /\ probed' = <<>>
    /\ picked' = "none"
    /\ list_calls' = 0 /\ probe_count' = NoProbes /\ prompts' = <<>>
    /\ response' = None /\ decoded' = PyNone
    /\ UNCHANGED <<api_key, configure_raised, configured, selected_model_name>>
    /\ IF ~configured
       THEN /\ Finish(Returns(FallbackResponse(NotConfiguredError.msg, now'), 112))
            /\ pass' = 0 /\ model_name' = None
       ELSE IF CachedHandle(selected_model_name)
       THEN /\ model_name' = selected_model_name
            /\ pc' = "generate" /\ pass' = 0
            /\ result' = PyNone /\ returned_at' = 0 /\ outcome' = "none"
       ELSE /\ model_name' = None
            /\ pc' = "pick" /\ pass' = 1
            /\ result' = PyNone /\ returned_at' = 0 /\ outcome' = "none"

\* pick_working_model raised e (lines 76, 96): lines 103-104 and 114-118
PickFails(e) ==
    LET out == PickRaised(e, pass, now)
    IN  /\ picked' = "raised"
        /\ models' = <<>> /\ candidates' = <<>> /\ idx' = 1 /\ probed' = <<>>
        /\ IF out.raised \/ pass = 2
           THEN /\ Finish(out)
                /\ UNCHANGED <<pass, model_name>>
           ELSE /\ model_name' = out.value.s
                /\ pc' = "pick" /\ pass' = 2
                /\ UNCHANGED <<result, returned_at, outcome>>

\* pick_working_model, lines 75-87: the listing, the filter and the sort
PickWorkingModel(listings) ==
    /\ pc = "pick"
    /\ UNCHANGED <<api_key, configure_raised, configured, selected_model_name,
                   fir_text, probe_count, prompts, response, decoded, now>>
    /\ IF ~configured
       THEN /\ PickFails(NotConfiguredError)
            /\ UNCHANGED list_calls
       ELSE \E listing \in listings :
              /\ list_calls' = list_calls + 1
              /\ models' = list_models(configured, listing)
              /\ candidates' = SortCandidates(FilterCandidates(models'))
              /\ idx' = 1
              /\ probed' = <<>>
              /\ pc' = "probe"
              /\ UNCHANGED <<pass, picked, model_name, result, returned_at, outcome>>

\* pick_working_model, lines 88-95: one turn of the for loop; the probe of
\* candidates[idx] succeeds or raises
Probe ==
    /\ pc = "probe"
    /\ idx <= Len(candidates)
    /\ \E ok \in BOOLEAN :
         LET candidate == candidates[idx]
         IN  /\ probe_count' = [probe_count EXCEPT ![candidate] = @ + 1]
             /\ IF ok
                THEN \* lines 92-93, then 101-102 or 116
                     /\ selected_model_name' = WorkingCandidate(candidates, idx)
                     /\ picked' = "returned"
                     /\ model_name' = selected_model_name'
                     /\ pc' = "generate"
                     /\ models' = <<>> /\ candidates' = <<>> /\ idx' = 1
                     /\ probed' = <<>>
                ELSE /\ idx' = idx + 1
                     /\ probed' = Append(probed, candidate)
                     /\ UNCHANGED <<selected_model_name, picked, model_name, pc,
                                    models, candidates>>
    /\ UNCHANGED <<api_key, configure_raised, configured, pass, fir_text,
                   list_calls, prompts, response, decoded, result,
                   returned_at, outcome, now>>

\* pick_working_model, line 96: every candidate was probed and none answered
NoWorkingModel ==
    /\ pc = "probe"
    /\ idx > Len(candidates)
    /\ PickFails(NoWorkingModelError)
    /\ UNCHANGED <<api_key, configure_raised, configured, selected_model_name,
                   fir_text, list_calls, probe_count, prompts, response, decoded, now>>

\* lines 119-241: the completion request and the normalisation of its text
Generate(outcomes) ==
    /\ pc = "generate"
    /\ \E completion \in outcomes :
         LET out == RequestAndNormalize(model_name, fir_text, completion, now)
             parsed == JsonLoads(JsonText(CleanResponse(completion.value)))
         IN  /\ prompts' = Append(prompts, [model |-> model_name, prompt |-> Prompt(fir_text)])
             /\ response' = IF completion.raised THEN None ELSE completion.value
             /\ decoded' = IF ~completion.raised /\ parsed.ok THEN parsed.v ELSE PyNone
             /\ Finish(out)
    /\ UNCHANGED <<api_key, configure_raised, configured, selected_model_name, pass,
                   fir_text, models, candidates, idx, probed, picked, model_name,
                   list_calls, probe_count, now>>

Next ==
    \/ \E fir \in FirTexts : Analyze(fir, MaxCalls)
    \/ PickWorkingModel(SpecListings)
    \/ Probe
    \/ NoWorkingModel
    \/ Generate(CompletionOutcomes)

Spec == Init /\ [][Next]_vars

NextSelect ==
    \/ \E fir \in {<<"H","e"," ","t","h","r","e","a","t","e","n","e","d"," ","m","e"," ","w","i",
                     "t","h"," ","a"," ","P","i","s","t","o","l">>} : Analyze(fir, 1)
    \/ PickWorkingModel(SelectListings)
    \/ Probe
    \/ NoWorkingModel
    \/ Generate(SelectCompletionOutcomes)

SpecSelect == Init /\ [][NextSelect]_vars

\* SpecExtract: one analyze call on a configured analyzer whose backend lists
\* one model and answers the completion request with prose, so that the
\* result comes from extract_from_text_response; every report text of
\* PhraseTexts.
InitExtract == Init /\ api_key = <<"A","I","z","a","S","y">> /\ ~configure_raised

NextExtract ==
    \/ \E fir \in PhraseTexts : Analyze(fir, 1)
    \/ PickWorkingModel({Returns(<<<<"m","o","d","e","l","s","/","g","e","m","i","n","i","-","2",
                                     ".","5">>>>, 70)})
    \/ Probe
    \/ NoWorkingModel
    \/ Generate({Returns(<<"I"," ","c","a","n","n","o","t"," ","h","e","l","p"," ","w","i","t",
                           "h"," ","t","h","a","t",".">>, 218)})

SpecExtract == InitExtract /\ [][NextExtract]_vars

-----------------------------------------------------------------------------
(* The shape of a result *)

ResultKeys ==
    {<<"e","x","t","r","a","c","t","e","d","_","i","n","f","o">>, <<"l","e","g","a","l","_","m","a","p","p","i","n","g">>, <<"l","e","g","a","l","_","a","n","a","l","y","s","i","s">>, <<"t","i","m","e","s","t","a","m","p">>,
     <<"m","o","d","e","l","_","u","s","e","d">>}

ExtractionFields ==
    {<<"C","o","m","p","l","a","i","n","a","n","t">>, <<"D","a","t","e","T","i","m","e">>, <<"P","l","a","c","e">>, <<"A","c","c","u","s","e","d">>, <<"V","e","h","i","c","l","e","s">>,
     <<"W","e","a","p","o","n","s","U","s","e","d">>, <<"O","f","f","e","n","c","e","s">>, <<"I","n","j","u","r","i","e","s">>, <<"P","r","o","p","e","r","t","y","L","o","s","s">>, <<"T","h","r","e","a","t","s">>,
     <<"W","i","t","n","e","s","s","e","s">>, <<"I","m","p","a","c","t">>}

StatuteNames ==
    {<<"B","N","S"," ","2","0","2","3">>, <<"S","C","/","S","T"," ","A","t","r","o","c","i","t","i","e","s"," ","A","c",
                      "t",","," ","1","9","8","9">>, <<"A","r","m","s"," ","A","c","t",","," ","1","9","5","9">>,
     <<"M","o","t","o","r"," ","V","e","h","i","c","l","e","s"," ","A","c","t",","," ","1","9",
       "8","8">>}

\* r has the five top-level keys, every extraction field and every statute
FullShape(r) ==
    /\ r.kind = "dict"
    /\ Keys(r) = ResultKeys
    /\ r.m[<<"e","x","t","r","a","c","t","e","d","_","i","n","f","o">>].kind = "dict"
    /\ Keys(r.m[<<"e","x","t","r","a","c","t","e","d","_","i","n","f","o">>]) = ExtractionFields
    /\ r.m[<<"l","e","g","a","l","_","m","a","p","p","i","n","g">>].kind = "dict"
    /\ Keys(r.m[<<"l","e","g","a","l","_","m","a","p","p","i","n","g">>]) = StatuteNames
    /\ \A k \in StatuteNames : r.m[<<"l","e","g","a","l","_","m","a","p","p","i","n","g">>].m[k].kind = "list"
    /\ r.m[<<"l","e","g","a","l","_","a","n","a","l","y","s","i","s">>].kind = "str"
    /\ r.m[<<"t","i","m","e","s","t","a","m","p">>].kind = "str"
    /\ r.m[<<"m","o","d","e","l","_","u","s","e","d">>].kind = "str"

Returned == pc = "idle" /\ outcome = "returned"

\* the credential is absent, empty or the placeholder, or configuring raised
Unconfigurable ==
    Falsy(api_key) \/ api_key = <<"Y","O","U","R","_","A","P","I","_","K","E","Y","_","H","E","R",
                                  "E">> \/ configure_raised

\* a bound on the steps a running analyze call still takes: the completion
\* request, the probes left in this pick_working_model call, and one more
\* whole call of it while in the first
StepsLeft ==
    LET whole == Cardinality(Catalog) + 2
    IN  IF pc = "idle" THEN 0
        ELSE IF pc = "generate" THEN 1
        ELSE IF pc = "pick" THEN (3 - pass) * whole + 1
        ELSE (2 - pass) * whole + (Len(candidates) + 1 - idx) + 2

NoBackendCalls == list_calls = 0 /\ probe_count = NoProbes /\ prompts = <<>>

-----------------------------------------------------------------------------
(* The claims *)

\* C1: whatever the report text and whatever the backend does (the listing
\* raises or lists, each probe raises or answers, the completion request
\* raises or returns any text), analyze_with_gemini ends by returning a dict:
\* no exception ever escapes, a call that ended returned a dict, and a running
\* call ends within boundedly many steps (each step lowers StepsLeft).
C1_AnalyzeAlwaysReturns ==
    /\ [](/\ outcome # "raised"
          /\ pc \in {"idle", "pick", "probe", "generate"}
          /\ pc = "idle" /\ now > 0 => outcome = "returned" /\ result.kind = "dict")
    /\ [][pc # "idle" => StepsLeft' < StepsLeft]_vars

\* C1 witness: a completion that decodes to a non-dict made line 234 raise
\* TypeError inside analyze, and analyze still returned a result.
C1_Witness ==
    /\ Returned /\ returned_at = 241
    /\ response = <<"4","2">>
    /\ result.kind = "dict"

\* C2 as claimed: every returned result, of whichever tier, has exactly the
\* five top-level keys, every extraction field and all four statute entries.
C2_EveryResultHasFullShape == Returned => FullShape(result)

\* C2 as amended: a result of the heuristic tier (line 239) or of the
\* total-failure tier (lines 112, 118, 241) has the full shape; a result of the
\* success tier (line 236) is the dict the backend's payload decoded to with
\* timestamp and model_used set, so it has those two keys and, of the others,
\* exactly the keys the payload holds.
C2_FixedTiersHaveFullShape ==
    Returned =>
       /\ returned_at \in {112, 118, 236, 239, 241}
       /\ returned_at # 236 => FullShape(result)
       /\ returned_at = 236 =>
            /\ result.kind = "dict" /\ decoded.kind = "dict"
            /\ Keys(result) = Keys(decoded) \cup {<<"t","i","m","e","s","t","a","m","p">>, <<"m","o","d","e","l","_","u","s","e","d">>}

\* C2 witness: a heuristic-tier result, returned for a completion that is no
\* JSON, with the full shape.
C2_Witness ==
    /\ Returned /\ returned_at = 239
    /\ response = <<"I"," ","c","a","n","n","o","t"," ","h","e","l","p"," ","w","i","t","h"," ",
                    "t","h","a","t",".">>
    /\ FullShape(result)

\* what _fallback_response leaves empty or "N/A" in extracted_info
EmptyOrNA(v) ==
    v \in {PyStr(<<>>), PyStr(<<"N","/","A">>), PyList(<<>>), PyDict(NoKeys)}

\* the parts of C3 that the claim and its amendment share: the call returns
\* at once, from line 112, with model_used "none" and a legal_analysis that
\* states the configuration error, and no backend request is made
UnconfiguredFailsAtOnce ==
    /\ pc = "idle"
    /\ NoBackendCalls
    /\ now > 0 =>
         /\ Returned /\ returned_at = 112
         /\ FullShape(result)
         /\ result.m[<<"m","o","d","e","l","_","u","s","e","d">>] = PyStr(<<"n","o","n","e">>)
         /\ result.m[<<"l","e","g","a","l","_","a","n","a","l","y","s","i","s">>].s # <<>>
         /\ Contains(result.m[<<"l","e","g","a","l","_","a","n","a","l","y","s","i","s">>].s, <<"G","e","m","i","n","i"," ","A","P","I"," ","n","o","t"," ",
                                                        "c","o","n","f","i","g","u","r","e","d">>)

\* C3 as claimed: with an absent, empty or placeholder credential, or after a
\* failed configuration, analyze returns within the call a total-failure result
\* (model_used "none", legal_analysis stating the configuration error) whose
\* extraction fields are all empty or "N/A", and makes no backend request.
C3_UnconfiguredAllFieldsEmpty ==
    Unconfigurable =>
       /\ UnconfiguredFailsAtOnce
       /\ now > 0 => \A f \in ExtractionFields :
                        EmptyOrNA(result.m[<<"e","x","t","r","a","c","t","e","d","_","i","n","f","o">>].m[f])

\* C3 as amended: the same, except that two extraction fields are not empty:
\* Complainant holds Name "Analysis Failed" and Error with the error message,
\* and Impact holds "Analysis failed - " and the error message; every other
\* extraction field is empty or "N/A".
C3_UnconfiguredTotalFailure ==
    Unconfigurable =>
       /\ UnconfiguredFailsAtOnce
       /\ now > 0 =>
            LET info == result.m[<<"e","x","t","r","a","c","t","e","d","_","i","n","f","o">>].m
            IN  /\ \A f \in ExtractionFields \ {<<"C","o","m","p","l","a","i","n","a","n","t">>, <<"I","m","p","a","c","t">>} :
                      EmptyOrNA(info[f])
                /\ info[<<"C","o","m","p","l","a","i","n","a","n","t">>] =
                      DictOf(<< <<<<"N","a","m","e">>, PyStr(<<"A","n","a","l","y","s","i","s"," ","F","a","i","l","e","d">>)>>,
                                <<<<"E","r","r","o","r">>, PyStr(<<"G","e","m","i","n","i"," ","A","P","I"," ","n","o","t"," ",
                                                      "c","o","n","f","i","g","u","r","e","d">>)>> >>)
                /\ info[<<"I","m","p","a","c","t">>] =
                      PyStr(<<"A","n","a","l","y","s","i","s"," ","f","a","i","l","e","d"," ","-",
                              " ","G","e","m","i","n","i"," ","A","P","I"," ","n","o","t"," ","c",
                              "o","n","f","i","g","u","r","e","d">>)

\* C3 witness: analyze returned on an analyzer whose configuration raised.
C3_Witness == configure_raised /\ Returned /\ returned_at = 112

\* the identifier holds no digit, so score finds no version in it
NoVersion(n) == \A i \in DOMAIN n : ~IsDigit(n[i])

\* the listed names that hold "gemini" in any case
GeminiNames(names) ==
    {n \in Range(names) : \E i \in 0..(Len(n) - 6) : Lower(Slice(n, i, i + 6)) = <<"g","e","m","i","n","i">>}

\* C4: pick_working_model probes its candidates in descending order of the
\* version number found in each identifier (the first run of digits, with an
\* optional fraction), an identifier without one counting as version 0 and so
\* being probed after every candidate of a positive version.  While the loop
\* runs, the candidates are the listed gemini names in that order and the
\* candidates probed so far are exactly the first idx - 1 of them.
C4_ProbesInDescendingVersionOrder ==
    pc = "probe" =>
       /\ Range(candidates) = GeminiNames(models)
       /\ Len(candidates) = Cardinality(GeminiNames(models))
       /\ \A i, j \in DOMAIN candidates :
             i < j => ~ScoreLess(score(candidates[i]), score(candidates[j]))
       /\ \A i, j \in DOMAIN candidates :
             /\ NoVersion(candidates[i]) => score(candidates[i]).num = 0
             /\ NoVersion(candidates[i]) /\ score(candidates[j]).num > 0 => j < i
       /\ idx \in 1..(Len(candidates) + 1)
       /\ probed = SubSeq(candidates, 1, idx - 1)

\* C4 witness: the listing [gemini-1.0, gemini-2.5, gemini-beta] was probed in
\* the order gemini-2.5, gemini-1.0, gemini-beta.
C4_Witness ==
    /\ pc = "probe"
    /\ models = <<<<"m","o","d","e","l","s","/","g","e","m","i","n","i","-","1",".","0">>, <<"m","o","d","e","l","s","/","g","e","m","i","n","i","-","2",
                                            ".","5">>, <<"m","o","d","e","l","s","/","g","e","m","i","n","i","-","b",
                                                                    "e","t","a">>>>
    /\ probed = <<<<"m","o","d","e","l","s","/","g","e","m","i","n","i","-","2",".","5">>, <<"m","o","d","e","l","s","/","g","e","m","i","n","i","-","1",
                                            ".","0">>, <<"m","o","d","e","l","s","/","g","e","m","i","n","i","-","b",
                                                                    "e","t","a">>>>

\* C5: pick_working_model returns the first candidate, in ranked order, whose
\* probe answers: when it returns, every candidate ranked before the returned
\* one was probed and raised, the returned one is cached, and no later
\* candidate was probed (in the first call of it, each earlier candidate was
\* probed once and each later one never).  It raises exactly when every
\* candidate was probed and raised (none at all after an empty or failed
\* listing) or the manager is unconfigured, and then nothing is cached.
C5_ReturnsFirstWorkingCandidate ==
    [][/\ pc = "probe" /\ pc' = "generate" =>
            /\ idx \in DOMAIN candidates
            /\ probed = SubSeq(candidates, 1, idx - 1)
            /\ selected_model_name' = candidates[idx]
            /\ model_name' = candidates[idx]
            /\ picked' = "returned"
            /\ pass = 1 =>
                 \A j \in DOMAIN candidates :
                    probe_count'[candidates[j]] = IF j <= idx THEN 1 ELSE 0
       /\ pc \in {"pick", "probe"} /\ pc' \in {"pick", "idle"} =>
            /\ ~configured \/ (pc = "probe" /\ probed = candidates)
            /\ picked' = "raised"
            /\ selected_model_name' = None
            /\ pc' = "idle" => returned_at' = 118 /\ ~(outcome' = "raised")
       /\ pc = "probe" /\ probed = candidates => pc' # "generate" /\ pc' # "probe"
      ]_vars

\* C5 witness: pick_working_model returned its second-ranked candidate after
\* the probe of the first-ranked one raised.
C5_Witness ==
    /\ pc = "generate" /\ pass = 1 /\ picked = "returned"
    /\ selected_model_name = <<"m","o","d","e","l","s","/","g","e","m","i","n","i","-","1",".","0">>
    /\ probe_count[<<"m","o","d","e","l","s","/","g","e","m","i","n","i","-","2",".","5">>] = 1
    /\ probe_count[<<"m","o","d","e","l","s","/","g","e","m","i","n","i","-","1",".","0">>] = 1
    /\ probe_count[<<"m","o","d","e","l","s","/","g","e","m","i","n","i","-","b","e","t","a">>] = 0

\* C6: once pick_working_model has stored a handle, no step of any analyze
\* call changes it, and every later analyze call goes straight to its
\* completion request on that handle: it makes no listing and no probe call,
\* also after a completion request on the handle has raised.
C6_CachedHandleIsReused ==
    [][~Falsy(selected_model_name) =>
          /\ selected_model_name' = selected_model_name
          /\ pc' \notin {"pick", "probe"}
          /\ pc = "idle" /\ pc' # "idle" =>
                /\ pc' = "generate"
                /\ model_name' = selected_model_name
                /\ list_calls' = 0 /\ probe_count' = NoProbes
          /\ pc = "generate" =>
                /\ list_calls' = list_calls /\ probe_count' = probe_count
                /\ prompts' = <<[model |-> selected_model_name, prompt |-> Prompt(fir_text)]>>
      ]_vars

\* C6 witness: a second analyze call ran on the cached handle without a
\* listing or a probe, its completion request raised, and the handle is kept.
C6_Witness ==
    /\ now = 2 /\ Returned /\ returned_at = 241 /\ response = None
    /\ selected_model_name = <<"m","o","d","e","l","s","/","g","e","m","i","n","i","-","2",".","5">>
    /\ prompts # <<>> /\ prompts[1].model = selected_model_name
    /\ list_calls = 0 /\ probe_count = NoProbes

\* C7: whenever the completion request returned text, analyze returns from
\* the success tier (line 236) or the heuristic tier (line 239) with model_used
\* the resolved model name; a result with model_used "none" is returned only
\* when the manager is unconfigured, no model could be resolved, or the
\* completion request itself raised.
C7_TextGivesSuccessOrHeuristicTier ==
    Returned =>
       /\ response # None =>
             /\ returned_at \in {236, 239}
             /\ result.m[<<"m","o","d","e","l","_","u","s","e","d">>] = PyStr(model_name)
       /\ result.m[<<"m","o","d","e","l","_","u","s","e","d">>] = PyStr(<<"n","o","n","e">>) =>
             \/ ~configured
             \/ picked = "raised"
             \/ prompts # <<>> /\ response = None

\* the text from the first { to the last } of the completion as it was sent
EmbeddedSpan(raw) == Slice(raw, Find(raw, <<"{">>), RFind(raw, <<"}">>) + 1)

\* C8: when the completion holds a valid JSON object between its first { and
\* its last }, whatever prose or fence markers surround it, the value analyze
\* decodes (before it sets timestamp and model_used) is the value that span
\* decodes to, and analyze returns from the success tier.
C8_DecodesTheEmbeddedSpan ==
    (/\ Returned /\ response # None
     /\ Find(response, <<"{">>) # -1 /\ RFind(response, <<"}">>) # -1
     /\ JsonLoads(EmbeddedSpan(response)).ok
     /\ JsonLoads(EmbeddedSpan(response)).v.kind = "dict")
    => /\ decoded = JsonLoads(EmbeddedSpan(response)).v
       /\ returned_at = 236

\* C9: whenever the completion's candidate text does not decode to a JSON
\* object, analyze returns what extract_from_text_response computes from the
\* report text alone, with legal_analysis the fallback notice naming the model
\* and model_used that model; no exception is raised on the way.
C9_UndecodableGivesHeuristicResult ==
    (Returned /\ response # None /\ decoded.kind # "dict")
    => /\ returned_at = 239
       /\ result = extract_from_text_response(<<>>, fir_text, model_name, now)
       /\ result.m[<<"l","e","g","a","l","_","a","n","a","l","y","s","i","s">>] = PyStr(FallbackNotice(model_name))
       /\ result.m[<<"m","o","d","e","l","_","u","s","e","d">>] = PyStr(model_name)

\* C10: within one analyze call the listing call is made at most once, each
\* candidate gets at most one "Hello" probe, and at most one completion
\* request is issued.
C10_NoRetriesWithinOneCall ==
    /\ list_calls <= 1
    /\ \A n \in DOMAIN probe_count : probe_count[n] <= 1
    /\ Len(prompts) <= 1

\* C11: whenever json.loads decodes the candidate text to a JSON object,
\* analyze returns from the success tier that object with exactly two keys
\* set: timestamp is the time of this call and model_used the resolved model
\* name, both replacing whatever the payload held under those keys, and every
\* other key of the payload is there with its decoded value, no key added.
C11_SuccessSetsOnlyTimestampAndModel ==
    (Returned /\ response # None /\ decoded.kind = "dict")
    => /\ returned_at = 236
       /\ result.kind = "dict"
       /\ Keys(result) = Keys(decoded) \cup {<<"t","i","m","e","s","t","a","m","p">>, <<"m","o","d","e","l","_","u","s","e","d">>}
       /\ result.m[<<"t","i","m","e","s","t","a","m","p">>] = PyStr(Isoformat(now))
       /\ result.m[<<"m","o","d","e","l","_","u","s","e","d">>] = PyStr(model_name)
       /\ \A k \in Keys(decoded) \ {<<"t","i","m","e","s","t","a","m","p">>, <<"m","o","d","e","l","_","u","s","e","d">>} :
             result.m[k] = decoded.m[k]

\* C11 witness: the payload came with a timestamp and a model_used of its
\* own, and the returned result holds the call's values in their place.
C11_Witness ==
    /\ Returned /\ returned_at = 236
    /\ decoded.kind = "dict"
    /\ Keys(decoded) = {<<"l","e","g","a","l","_","a","n","a","l","y","s","i","s">>, <<"t","i","m","e","s","t","a","m","p">>, <<"m","o","d","e","l","_","u","s","e","d">>}
    /\ decoded.m[<<"t","i","m","e","s","t","a","m","p">>] = PyStr(<<"t">>)
    /\ decoded.m[<<"m","o","d","e","l","_","u","s","e","d">>] = PyStr(<<"m">>)
    /\ result.m[<<"t","i","m","e","s","t","a","m","p">>] = PyStr(Isoformat(now))
    /\ result.m[<<"m","o","d","e","l","_","u","s","e","d">>] = PyStr(model_name)
    /\ result.m[<<"l","e","g","a","l","_","a","n","a","l","y","s","i","s">>] = PyStr(<<"o","k">>)

\* kw occurs in text as a substring, letter case apart
Occurs(text, kw) ==
    \E i \in 0..(Len(text) - Len(kw)) : Lower(Slice(text, i, i + Len(kw))) = kw

\* the legal-hint rules in their order: statute, keywords, citations
HintRules ==
    << [statute |-> <<"B","N","S"," ","2","0","2","3">>,
        keywords |-> {<<"r","o","b","b","e","r","y">>, <<"s","n","a","t","c","h","e","d">>, <<"f","o","r","c","i","b","l","y"," ","t","o","o","k">>},
        citations |-> <<<<"S","e","c","t","i","o","n"," ","3","0","9","(","2",")"," ","-"," ","R",
                          "o","b","b","e","r","y",":"," ","F","o","r","c","i","b","l","e"," ","t",
                          "a","k","i","n","g"," ","o","f"," ","p","r","o","p","e","r","t","y">>>>],
       [statute |-> <<"B","N","S"," ","2","0","2","3">>,
        keywords |-> {<<"t","h","r","e","a","t","e","n","e","d">>, <<"t","h","r","e","a","t">>, <<"i","n","t","i","m","i","d","a","t">>},
        citations |-> <<<<"S","e","c","t","i","o","n"," ","3","5","1","(","2",")"," ","-"," ","C",
                          "r","i","m","i","n","a","l"," ","i","n","t","i","m","i","d","a","t","i",
                          "o","n">>>>],
       [statute |-> <<"B","N","S"," ","2","0","2","3">>,
        keywords |-> {<<"i","n","j","u","r","y">>, <<"h","u","r","t">>, <<"i","n","j","u","r","e","d">>, <<"b","l","e","e","d","i","n","g">>},
        citations |-> <<<<"S","e","c","t","i","o","n"," ","1","1","5","(","2",")"," ","-"," ","V",
                          "o","l","u","n","t","a","r","i","l","y"," ","c","a","u","s","i","n","g",
                          " ","h","u","r","t">>>>],
       [statute |-> <<"S","C","/","S","T"," ","A","t","r","o","c","i","t","i","e","s"," ","A","c",
                      "t",","," ","1","9","8","9">>,
        keywords |-> {<<"c","a","s","t","e">>, <<"s","c","h","e","d","u","l","e","d"," ","c","a","s","t","e">>, <<"s","c","/","s","t">>},
        citations |-> <<<<"S","e","c","t","i","o","n"," ","3","(","1",")","(","r",")"," ","-"," ",
                          "I","n","t","e","n","t","i","o","n","a","l"," ","i","n","s","u","l","t",
                          "/","a","b","u","s","e">>>>],
       [statute |-> <<"A","r","m","s"," ","A","c","t",","," ","1","9","5","9">>,
        keywords |-> {<<"p","i","s","t","o","l">>, <<"g","u","n">>, <<"f","i","r","e","a","r","m">>},
        citations |-> <<<<"S","e","c","t","i","o","n"," ","2","5"," ","-"," ","P","o","s","s","e",
                          "s","s","i","o","n","/","u","s","e"," ","o","f"," ","p","r","o","h","i",
                          "b","i","t","e","d"," ","a","r","m","s">>,
                        <<"S","e","c","t","i","o","n"," ","2","7"," ","-"," ","U","s","e"," ","o",
                          "f"," ","a","r","m","s"," ","i","n"," ","c","o","m","m","i","s","s","i",
                          "o","n"," ","o","f"," ","o","f","f","e","n","c","e">>>>] >>

\* rule r fires on text: one of its keywords occurs in it
Fires(r, text) == \E kw \in HintRules[r].keywords : Occurs(text, kw)

\* how often citation c stands in the list cs
Count(cs, c) == Cardinality({i \in DOMAIN cs : cs[i] = PyStr(c)})

\* the place of citation c in the list cs
PlaceOf(cs, c) == CHOOSE i \in DOMAIN cs : cs[i] = PyStr(c)

\* the heuristic tier returned
HeuristicReturned == Returned /\ returned_at = 239

\* C12: in the result of the heuristic extractor every citation of a
\* legal-hint rule stands exactly once in its statute's list when one of the
\* rule's keywords occurs in the report text, letter case apart, and not at
\* all otherwise, whatever the other rules do; the lists hold nothing else,
\* and citations stand in rule order.  So "threatened" gives the criminal
\* intimidation citation and "pistol" gives Section 25 then Section 27 of the
\* Arms Act.
C12_HintRulesFireIndependently ==
    HeuristicReturned =>
       LET lm == result.m[<<"l","e","g","a","l","_","m","a","p","p","i","n","g">>].m
       IN  /\ \A r \in DOMAIN HintRules :
                \A k \in DOMAIN HintRules[r].citations :
                   Count(lm[HintRules[r].statute].a, HintRules[r].citations[k])
                      = IF Fires(r, fir_text) THEN 1 ELSE 0
           /\ \A st \in StatuteNames : \A i \in DOMAIN lm[st].a :
                \E r \in DOMAIN HintRules :
                   /\ HintRules[r].statute = st
                   /\ \E k \in DOMAIN HintRules[r].citations :
                         lm[st].a[i] = PyStr(HintRules[r].citations[k])
           /\ \A r1, r2 \in DOMAIN HintRules :
                \A k1 \in DOMAIN HintRules[r1].citations :
                   \A k2 \in DOMAIN HintRules[r2].citations :
                      (/\ HintRules[r1].statute = HintRules[r2].statute
                       /\ Fires(r1, fir_text) /\ Fires(r2, fir_text)
                       /\ r1 < r2 \/ (r1 = r2 /\ k1 < k2))
                      => PlaceOf(lm[HintRules[r1].statute].a, HintRules[r1].citations[k1])
                            < PlaceOf(lm[HintRules[r2].statute].a, HintRules[r2].citations[k2])
           /\ Occurs(fir_text, <<"t","h","r","e","a","t","e","n","e","d">>) =>
                Count(lm[<<"B","N","S"," ","2","0","2","3">>].a, <<"S","e","c","t","i","o","n"," ","3","5","1","(","2",")"," ",
                                             "-"," ","C","r","i","m","i","n","a","l"," ","i","n","t","i",
                                             "m","i","d","a","t","i","o","n">>) = 1
           /\ Occurs(fir_text, <<"p","i","s","t","o","l">>) =>
                lm[<<"A","r","m","s"," ","A","c","t",","," ","1","9","5","9">>].a =
                   <<PyStr(<<"S","e","c","t","i","o","n"," ","2","5"," ","-"," ","P","o","s","s",
                             "e","s","s","i","o","n","/","u","s","e"," ","o","f"," ","p","r","o",
                             "h","i","b","i","t","e","d"," ","a","r","m","s">>),
                     PyStr(<<"S","e","c","t","i","o","n"," ","2","7"," ","-"," ","U","s","e"," ",
                             "o","f"," ","a","r","m","s"," ","i","n"," ","c","o","m","m","i","s",
                             "s","i","o","n"," ","o","f"," ","o","f","f","e","n","c","e">>)>>

\* C12 witness: a report text with "Threatened" and "PISTOL" and no word of
\* the hurt, robbery or caste rules got the intimidation citation and both
\* Arms Act citations, and nothing else.
C12_Witness ==
    /\ HeuristicReturned
    /\ fir_text = <<"T","h","r","e","a","t","e","n","e","d",","," ","P","I","S","T","O","L">>
    /\ result.m[<<"l","e","g","a","l","_","m","a","p","p","i","n","g">>].m[<<"B","N","S"," ","2","0","2","3">>].a =
          <<PyStr(<<"S","e","c","t","i","o","n"," ","3","5","1","(","2",")"," ","-"," ","C","r",
                    "i","m","i","n","a","l"," ","i","n","t","i","m","i","d","a","t","i","o","n">>)>>
    /\ result.m[<<"l","e","g","a","l","_","m","a","p","p","i","n","g">>].m[<<"A","r","m","s"," ","A","c","t",","," ","1","9","5","9">>].a =
          <<PyStr(<<"S","e","c","t","i","o","n"," ","2","5"," ","-"," ","P","o","s","s","e","s",
                    "s","i","o","n","/","u","s","e"," ","o","f"," ","p","r","o","h","i","b","i",
                    "t","e","d"," ","a","r","m","s">>),
            PyStr(<<"S","e","c","t","i","o","n"," ","2","7"," ","-"," ","U","s","e"," ","o","f",
                    " ","a","r","m","s"," ","i","n"," ","c","o","m","m","i","s","s","i","o","n",
                    " ","o","f"," ","o","f","f","e","n","c","e">>)>>
    /\ result.m[<<"l","e","g","a","l","_","m","a","p","p","i","n","g">>].m[<<"S","C","/","S","T"," ","A","t","r","o","c","i","t","i","e",
                                        "s"," ","A","c","t",","," ","1","9","8","9">>].a = <<>>

\* the weapons lexicon in its order
Lexicon ==
    <<<<"k","n","i","f","e">>, <<"p","i","s","t","o","l">>, <<"g","u","n">>, <<"r","o","d">>, <<"s","t","i","c","k">>, <<"w","e","a","p","o","n">>, <<"f","i","r","e","a","r","m">>>>

\* the place of keyword w in the lexicon
LexiconPlace(w) == CHOOSE i \in DOMAIN Lexicon : PyStr(Lexicon[i]) = w

\* C13: in the result of the heuristic extractor WeaponsUsed holds a keyword
\* of the lexicon exactly when the keyword occurs in the report text, letter
\* case apart; it holds nothing else, no keyword twice, and its keywords
\* stand in the order of the lexicon (knife, pistol, gun, rod, stick, weapon,
\* firearm), wherever the text mentions them.
C13_WeaponsInLexiconOrder ==
    HeuristicReturned =>
       LET used == result.m[<<"e","x","t","r","a","c","t","e","d","_","i","n","f","o">>].m[<<"W","e","a","p","o","n","s","U","s","e","d">>].a
       IN  /\ \A k \in DOMAIN Lexicon :
                (\E i \in DOMAIN used : used[i] = PyStr(Lexicon[k]))
                   <=> Occurs(fir_text, Lexicon[k])
           /\ \A i \in DOMAIN used : \E k \in DOMAIN Lexicon : used[i] = PyStr(Lexicon[k])
           /\ \A i, j \in DOMAIN used : used[i] = used[j] => i = j
           /\ \A i, j \in DOMAIN used :
                i < j => LexiconPlace(used[i]) < LexiconPlace(used[j])

\* C13 witness: the report text mentions an iron rod before a knife, and
\* WeaponsUsed is knife, rod.
C13_Witness ==
    /\ HeuristicReturned
    /\ fir_text = <<"i","r","o","n"," ","r","o","d",","," ","K","n","i","f","e">>
    /\ result.m[<<"e","x","t","r","a","c","t","e","d","_","i","n","f","o">>].m[<<"W","e","a","p","o","n","s","U","s","e","d">>].a
          = <<PyStr(<<"k","n","i","f","e">>), PyStr(<<"r","o","d">>)>>

====
